---- MODULE Spec2Model ----
(***************************************************************************)
(* Harvest-and-dispatch pipeline of xxl-mepay.                             *)
(*                                                                         *)
(* The repository holds two entry points over the same progress file:      *)
(*   "cli"  : the package, src/src/xxl_mepay/cli.py (_run / main)          *)
(*   "main" : the standalone script, src/main.py (main)                    *)
(* variant is fixed when the program is started and selects whose code the *)
(* actions follow.                                                         *)
(***************************************************************************)
EXTENDS Integers, Sequences, FiniteSets, TLC

VARIABLES
    variant,            \* which entry point runs: "cli" or "main"
    pc,                 \* position of the run
    file,               \* content of progress.json
    keyring,            \* platform credential store: email -> password or None
    progress,           \* the dict load_progress returned
    email,              \* local of _run / main
    password,           \* local of _run / main
    last_max_page,      \* local of _run / main
    processed_codes,    \* local of _run / main
    processed_reurls,   \* local of _run (cli only)
    mepay_token,        \* bearer token, None before login
    start_page,         \* argument of collect_forum_data
    codes,              \* accumulator of collect_forum_data
    reurls,             \* accumulator of collect_forum_data
    first_page_soup,    \* pagination control of the parsed anchor page
    max_page,           \* local of collect_forum_data
    tasks,              \* secondary page fetches still in flight
    page_responses,     \* responses of the completed secondary fetches
    collected_result,   \* CollectedResult, None before the crawl returned
    todo,               \* codes the for loop has not reached yet
    support_code,       \* loop variable: the code being dispatched
    support_user_data,  \* local of support_user after the lookup
    support_result,     \* what support_user returned, None before
    save_data,          \* argument of the save_progress call in progress
    save_ret,           \* where the save_progress call in progress returns to
    run_end,            \* how the last run ended
    file_at_start,      \* history: progress.json when the run started
    file_before_save,   \* history: progress.json when the last save was called
    crawl_requests,     \* history: requests to the listing and comment endpoints
    save_calls,         \* history: save_progress calls of this run
    lookups,            \* history: lookup requests per code in this run
    requested,          \* history: codes a lookup or apply request was issued for
    applies,            \* history: apply POSTs of the support_user call in progress
    dispatched,         \* history: codes whose support_user returned in this run
    lookup_class,       \* history: how the last lookup response classifies
    apply_status,       \* history: status of the last apply response, if any
    crawl_log,          \* history: what the fetches of this run's crawl answered
    prev_harvest,       \* history: what the run before this one harvested
    arg,                \* the argument of a function applied on its own
    ret                 \* what that function returned

vars == << variant, pc, file, keyring, progress, email, password, last_max_page,
           processed_codes, processed_reurls, mepay_token, start_page, codes,
           reurls, first_page_soup, max_page, tasks, page_responses,
           collected_result, todo, support_code, support_user_data,
           support_result, save_data, save_ret, run_end, file_at_start,
           file_before_save, crawl_requests, save_calls, lookups, requested, applies,
           dispatched, lookup_class, apply_status, crawl_log, prev_harvest,
           arg, ret >>

---------------------------------------------------------------------------
(* Bounds *)

\* Largest page number a pagination control of the model names.
MaxPage == 3

\* Python's None where a string is expected.
None == "None"
\* An optional integer: Unset is None, Some(n) is the integer n.
Unset == << >>
Some(n) == << n >>
Val(o) == o[1]

\* Support codes: code 0 is posted in the first-floor comments, codes 1 and 2
\* on listing page 1, and code 2 again on every later page.
Codes == {0, 1, 2}

\* Short links: link 1 is posted on listing page 1, link 0 in the comments.
Links == {0, 1}

Emails == {"e1"}
Passwords == {"p1"}
\* What the operator may type at a prompt ("" is a blank answer).
EmailInputs == Emails \cup {""}
PasswordInputs == Passwords \cup {""}

Variants == {"cli", "main"}

\* The status the lookup treats as "no such code" (mepay.py line 22).
StatusNotAllowed == 405
\* The only status the apply POST accepts (mepay.py line 76).
StatusOK == 200
\* The statuses a server may answer with.
Statuses == {StatusOK, StatusNotAllowed, 401, 500}

---------------------------------------------------------------------------
(* Progress store: state.py, and its older copy in main.py *)

\* list(s): a set written as a JSON array.
RECURSIVE SetToList(_)
SetToList(s) ==
    IF s = {} THEN << >>
    ELSE LET x == CHOOSE y \in s : \A z \in s : y <= z
         IN << x >> \o SetToList(s \ {x})

\* set(l): a JSON array read back as a set.
ListToSet(l) == { l[i] : i \in DOMAIN l }

MissingFile == [kind |-> "missing"]
\* An empty or partly written file: json.load raises JSONDecodeError.
TruncatedFile == [kind |-> "truncated"]
JsonFile(obj) == [kind |-> "json", obj |-> obj]

\* A file that parses as JSON but not to an object: an array, null, a number
\* or a string.
OtherJsonFile(value) == [kind |-> "json_other", value |-> value]
\* A file that parses to an object written by something else: obj holds the
\* members it has, nonlist names the members whose value is not an array.
ForeignJsonFile(obj, nonlist) == [kind |-> "json", obj |-> obj, nonlist |-> nonlist]

\* state.py lines 16 and 20: "k in data and isinstance(data[k], list)"
IsListMember(f, k) ==
    /\ k \in DOMAIN f.obj
    /\ "nonlist" \in DOMAIN f => k \notin f.nonlist

\* state.py load_progress, lines 15-23: the membership test or the item
\* assignment raises TypeError on a value that is no object, and nothing
\* catches it
load_progress_raises(f) == f.kind = "json_other"

\* state.py load_progress: the dict it returns (when it does not raise)
load_progress(f) ==
    IF f.kind = "json"
    THEN [ k \in DOMAIN f.obj \cup {"processed_codes", "reurl_links"} |->
             IF k \in {"processed_codes", "reurl_links"}
             THEN (IF IsListMember(f, k) THEN ListToSet(f.obj[k]) ELSE {})
             ELSE f.obj[k] ]
    ELSE [ email |-> None, last_max_page |-> Unset,
           processed_codes |-> {}, reurl_links |-> {} ]

\* main.py load_progress
legacy_load_progress(f) ==
    IF f.kind = "json"
    THEN [ last_max_page |-> f.obj.last_max_page,
           processed_codes |-> ListToSet(f.obj.processed_codes) ]
    ELSE [ last_max_page |-> Unset, processed_codes |-> {} ]

\* cli.py lines 20 and 30-32: progress.get(k, default)
dict_get(d, k, default) == IF k \in DOMAIN d THEN d[k] ELSE default

\* state.py lines 38-41: a subscript of the dict literal raises KeyError when
\* the data lacks the key (the file is open for writing by then)
save_progress_raises(data) ==
    ~({"email", "last_max_page", "processed_codes", "reurl_links"}
        \subseteq DOMAIN data)

\* state.py save_progress: the JSON object json.dump writes
save_progress(data) ==
    JsonFile([ email |-> data.email,
               last_max_page |-> data.last_max_page,
               processed_codes |-> SetToList(data.processed_codes),
               reurl_links |-> SetToList(data.reurl_links) ])

\* main.py save_progress: the JSON object json.dump writes
legacy_save_progress(data) ==
    JsonFile([ last_max_page |-> data.last_max_page,
               processed_codes |-> SetToList(data.processed_codes) ])

\* The processed codes a load of file f yields (either variant).
PersistedCodes(f) ==
    IF f.kind = "json" THEN ListToSet(f.obj.processed_codes) ELSE {}

\* The last_max_page a load of file f yields (either variant).
PersistedMaxPage(f) ==
    IF f.kind = "json" THEN f.obj.last_max_page ELSE Unset

\* The short links a load of file f yields (main.py keeps none).
PersistedLinks(f) ==
    IF f.kind = "json" /\ "reurl_links" \in DOMAIN f.obj
    THEN ListToSet(f.obj.reurl_links) ELSE {}

\* The checkpoint a load of file f yields: everything but the identity.
Checkpoint(f) ==
    [last_max_page |-> PersistedMaxPage(f), processed_codes |-> PersistedCodes(f),
     reurl_links |-> PersistedLinks(f)]

\* state.py get_previous_password (a KeyringError reads as None)
get_previous_password(e, kr) ==
    IF e \notin DOMAIN kr THEN {None} ELSE {kr[e], None}

\* What progress.json may hold when it was not written by this program: the
\* objects with any of the four members missing or, for the two arrays, of
\* another type, and the values that are no object.
ProgressKeys == {"email", "last_max_page", "processed_codes", "reurl_links"}

\* The objects with the members ks, those of nonlist holding no array.
ObjectsWith(ks, nonlist) ==
    { [ k \in ks |->
          CASE k = "email" -> e
            [] k = "last_max_page" -> lmp
            [] k = "processed_codes" ->
                 (IF k \in nonlist THEN << >> ELSE SetToList(cs))
            [] OTHER -> (IF k \in nonlist THEN << >> ELSE SetToList(ls)) ] :
        e \in {None} \cup Emails,
        lmp \in {Unset} \cup { Some(n) : n \in 1 .. MaxPage },
        cs \in SUBSET Codes,
        ls \in SUBSET Links }

ForeignFilesWith(ks) ==
    UNION { { ForeignJsonFile(obj, nonlist) : obj \in ObjectsWith(ks, nonlist) } :
              nonlist \in SUBSET ({"processed_codes", "reurl_links"} \cap ks) }

FileContents ==
    { MissingFile, TruncatedFile }
      \cup { OtherJsonFile(v) : v \in {"array", "null", "number", "string"} }
      \cup UNION { ForeignFilesWith(ks) : ks \in SUBSET ProgressKeys }

---------------------------------------------------------------------------
(* Forum crawler: bahamut.py, and its older copy in main.py *)

\* An anchor of the pagination region. text is the label as an optional integer
\* (Unset: not a number); href is the link target: absent, without "?page=",
\* or with "?page=" and a page parameter (Unset: not a number), or with a page
\* parameter that does not come first in the query ("...?bsn=1&page=3").
Anchor(pagenow, text, href) == [pagenow |-> pagenow, text |-> text, href |-> href]
NoHref == [kind |-> "absent", page |-> Unset]
OtherHref == [kind |-> "nopage", page |-> Unset]
PageHref(v) == [kind |-> "page", page |-> v]
LaterPageHref(v) == [kind |-> "later", page |-> v]

\* bahamut.py parse_page_number_from_url: the page number, Unset for ValueError
parse_page_number_from_url(href) == href.page

\* The page_numbers list get_max_page_number builds from the anchors.
RECURSIVE PageNumbers(_)
PageNumbers(anchors) ==
    IF anchors = << >> THEN << >>
    ELSE LET a == Head(anchors)
             rest == PageNumbers(Tail(anchors))
         IN IF a.pagenow THEN << Val(a.text) >> \o rest
            ELSE IF a.href.kind # "page" THEN rest
            ELSE IF parse_page_number_from_url(a.href) = Unset THEN rest
            ELSE << Val(parse_page_number_from_url(a.href)) >> \o rest

MaxOf(seq) == CHOOSE m \in ListToSet(seq) : \A x \in ListToSet(seq) : x <= m

\* bahamut.py get_max_page_number. soup.control: the page has a p.BH-pagebtnA.
\* raised: int() of a current-page label that is no number (ValueError).
get_max_page_number(soup) ==
    IF ~soup.control THEN [raised |-> FALSE, value |-> 1]
    ELSE IF \E i \in DOMAIN soup.anchors :
                soup.anchors[i].pagenow /\ soup.anchors[i].text = Unset
         THEN [raised |-> TRUE, value |-> 1]
    ELSE IF PageNumbers(soup.anchors) = << >> THEN [raised |-> FALSE, value |-> 1]
    ELSE [raised |-> FALSE, value |-> MaxOf(PageNumbers(soup.anchors))]

\* A page without pagination control (also an error page).
NoControl == [control |-> FALSE, anchors |-> << >>]
\* The control of page cur of a thread of m pages.
Control(m, cur) ==
    [control |-> TRUE,
     anchors |-> [q \in 1 .. m |->
                    IF q = cur THEN Anchor(TRUE, Some(q), NoHref)
                    ELSE Anchor(FALSE, Some(q), PageHref(Some(q)))]]
\* A control whose current-page label is not a number.
BadControl == [control |-> TRUE, anchors |-> << Anchor(TRUE, Unset, NoHref) >>]

\* Most anchors a pagination region given to get_max_page_number holds.
MaxAnchors == 3

\* The labels and page parameters of those anchors: numbers (0 and a negative
\* one included) and text that is no number.
PageValues == { Unset } \cup { Some(n) : n \in -1 .. MaxPage }

\* The anchors of a pagination region: the current-page anchor carries a
\* label, the others a link target.
Anchors ==
    { Anchor(TRUE, t, NoHref) : t \in PageValues }
      \cup { Anchor(FALSE, Unset, h) :
               h \in {NoHref, OtherHref} \cup { PageHref(v) : v \in PageValues }
                      \cup { LaterPageHref(Some(n)) : n \in 1 .. MaxPage } }

\* The parsed pages get_max_page_number may be given.
ParsedPages ==
    { NoControl } \cup
    { [control |-> TRUE, anchors |-> as] :
        as \in UNION { [1 .. n -> Anchors] : n \in 0 .. MaxAnchors } }

\* The pagination controls an anchor response of the model may carry.
Soups == {NoControl, BadControl}
            \cup { Control(m, cur) : m \in 1 .. MaxPage, cur \in 1 .. MaxPage }

\* Longest text given to extract_support_codes.
MaxLen == 8

\* The characters of a text, as _SUPPORT_CODE_PATTERN tells them apart: "h" and
\* "a" are in the class [a-zA-Z0-9=] ("h" is also the first character of the
\* pattern's literal part), ":" occurs in the literal part only, " " in neither.
TokenChars == {"h", "a"}
TextChars == TokenChars \cup {":", " "}
Texts == UNION { [1 .. n -> TextChars] : n \in 0 .. MaxLen }

\* bahamut.py lines 10-12: the literal part of _SUPPORT_CODE_PATTERN
\* ("https://www.mepay.com.tw/XXL?supportCode="), shortened to its first
\* character and one character outside the class.
SupportCodePrefix == << "h", ":" >>

\* The pattern matches at position i: the literal part, then at least one
\* character of the class.
MatchesAt(text, i) ==
    /\ i + Len(SupportCodePrefix) <= Len(text)
    /\ SubSeq(text, i, i + Len(SupportCodePrefix) - 1) = SupportCodePrefix
    /\ text[i + Len(SupportCodePrefix)] \in TokenChars

\* The last position of the longest run of class characters that begins at j
\* (the group is greedy).
RunEnd(text, j) ==
    CHOOSE e \in j .. Len(text) :
        /\ \A k \in j .. e : text[k] \in TokenChars
        /\ e = Len(text) \/ text[e + 1] \notin TokenChars

\* _SUPPORT_CODE_PATTERN.findall(text) from position i on: the groups of the
\* leftmost non-overlapping matches, in order.
RECURSIVE findall(_, _)
findall(text, i) ==
    IF i > Len(text) THEN << >>
    ELSE IF MatchesAt(text, i)
    THEN LET j == i + Len(SupportCodePrefix)
             e == RunEnd(text, j)
         IN << SubSeq(text, j, e) >> \o findall(text, e + 1)
    ELSE findall(text, i + 1)

\* Mutant of extract_support_codes: the occurrences are kept, like a list.
extract_support_codes_Occurrences(text) ==
    { << i, findall(text, 1)[i] >> : i \in DOMAIN findall(text, 1) }

\* bahamut.py lines 53-54 (main.py lines 75-76): extract_support_codes
extract_support_codes(text) == ListToSet(findall(text, 1))

\* What is posted where (the extractors applied to the page's content blocks).
PageCodes(p) ==
    IF p = 1 THEN {1, 2} ELSE IF p \in 2 .. MaxPage THEN {2} ELSE {}
PageLinks(p) == IF p = 1 THEN {1} ELSE {}
CommentCodes == {0}
CommentLinks == {0}

\* bahamut.py parse_page on the response for page p: body "posts" holds the
\* page's content blocks, any other body (an error page) holds none.
parse_page(p, body) ==
    IF body = "posts"
    THEN [support_codes |-> PageCodes(p), reurl_links |-> PageLinks(p)]
    ELSE [support_codes |-> {}, reurl_links |-> {}]

PageBodies == {"posts", "error"}

\* res.is_success of the response that carries the body: "posts" comes with a
\* success status, "error" is the error page of any other status.
\* collect_forum_data never reads it.
is_success(body) == body = "posts"

\* What the fetches of a crawl answered, nothing fetched yet.
NoCrawlLog == [anchor |-> None, comments |-> None, pages |-> {}]

\* Mutant of SecondaryPages: the range begins after the start page.
SecondaryPages_AfterStart(start, maxp) ==
    { p \in (start + 1) .. maxp : TRUE }

\* The secondary pages collect_forum_data fetches: range(max(2, start), max + 1)
SecondaryPages(start, maxp) ==
    { p \in (IF start > 2 THEN start ELSE 2) .. maxp : TRUE }

---------------------------------------------------------------------------
(* Support resolver/dispatcher: mepay.py, and its older copy in main.py *)

\* Failure messages of the lookup endpoint, as the words the code tells apart.
SelfSupportMessage == << "cannot_support_self" >>
AlreadyMessage(who, name) == << who, "already_supported", name, "no_repeat" >>
OtherMessage == << "account_suspended" >>

\* "self", the display name reported for a self-support code
SelfDesignator == "self"
Names == {"alice"}
ApplicationTokens == {"tok"}

\* Payloads (the "data" member of the JSON body) of a lookup response.
FailedData(msg) == [message |-> msg]
SuccessData(nick, tok) == [user |-> [nickname |-> nick], support_user_code |-> tok]
\* A body res.json() cannot decode, or without a usable "data" member.
Undecodable == [undecodable |-> TRUE]

LookupBodies ==
    {Undecodable, FailedData(SelfSupportMessage), FailedData(OtherMessage)}
        \cup { FailedData(AlreadyMessage("me", n)) : n \in Names }
        \cup { SuccessData(n, t) : n \in Names, t \in ApplicationTokens }

LookupResponses ==
    [status : Statuses, data : LookupBodies]

\* _SUPPORTED_PATTERN.match(message): the matched name, or None
SupportedPatternMatch(msg) ==
    IF Len(msg) = 4 /\ msg[2] = "already_supported" /\ msg[4] = "no_repeat"
    THEN msg[3] ELSE None

NoData == [tag |-> "none"]
Raised == [tag |-> "raised"]
UserData(username, code) ==
    [tag |-> "data", username |-> username, support_user_code |-> code]

\* mepay.py get_support_user_data
get_support_user_data(res) ==
    IF res.status = StatusNotAllowed THEN NoData
    ELSE IF res.data = Undecodable THEN Raised
    ELSE IF "message" \in DOMAIN res.data
    THEN IF res.data.message = SelfSupportMessage
         THEN UserData(SelfDesignator, None)
         ELSE IF SupportedPatternMatch(res.data.message) = None THEN NoData
         ELSE UserData(SupportedPatternMatch(res.data.message), None)
    ELSE UserData(res.data.user.nickname, res.data.support_user_code)

\* main.py get_support_user_data: asserts that the pattern matches
legacy_get_support_user_data(res) ==
    IF res.status = StatusNotAllowed THEN NoData
    ELSE IF res.data = Undecodable THEN Raised
    ELSE IF "message" \in DOMAIN res.data
    THEN IF res.data.message = SelfSupportMessage
         THEN UserData(SelfDesignator, None)
         ELSE IF SupportedPatternMatch(res.data.message) = None THEN Raised
         ELSE UserData(SupportedPatternMatch(res.data.message), None)
    ELSE UserData(res.data.user.nickname, res.data.support_user_code)

\* How the lookup response classifies (the states of the resolver).
Classify(res) ==
    IF res.status = StatusNotAllowed THEN "Unresolvable"
    ELSE IF res.data = Undecodable THEN "Undecodable"
    ELSE IF "message" \in DOMAIN res.data
    THEN IF res.data.message = SelfSupportMessage THEN "SelfSupport"
         ELSE IF SupportedPatternMatch(res.data.message) = None THEN "Unresolvable"
         ELSE "AlreadySupported"
    ELSE "Applicable"

NoResult == [tag |-> "none"]
Result(success, message, code, username, token) ==
    [tag |-> "result", success |-> success, message |-> message,
     support_code |-> code, username |-> username, support_user_code |-> token]

\* support_user: the result when get_support_user_data returned None
UnknownResult(code) ==
    Result(FALSE, << "unknown_error_link" >>, code, None, None)
\* Mutant of AlreadyResult: an already-supported code is reported as a success.
AlreadyResult_Success(code, data) ==
    Result(TRUE, << "already_supported", data.username >>, code,
           data.username, data.support_user_code)

\* support_user: the result when the data carries no application token
AlreadyResult(code, data) ==
    Result(FALSE, << "already_supported", data.username >>, code,
           data.username, data.support_user_code)
\* support_user: the result of a rejected apply POST
ApplyFailedResult(code, data) ==
    Result(FALSE, << "unknown_error_server" >>, code,
           data.username, data.support_user_code)
\* support_user: the result of an accepted apply POST
AppliedResult(code, data) ==
    Result(TRUE, << "supported", data.username >>, code,
           data.username, data.support_user_code)

---------------------------------------------------------------------------
(* Pipeline orchestrator: cli.py _run / main, and main.py main *)

\* Mutant of AlreadyProcessed: the skip test is missing.
AlreadyProcessed_Never(code, processed) == FALSE

\* cli.py line 60 / main.py line 356: the loop's skip test
AlreadyProcessed(code, processed) == code \in processed

\* Mutant of MarkProcessed: the set is replaced instead of extended.
MarkProcessed_Replace(processed, code) == {code}

\* cli.py line 66 / main.py line 362: processed_codes |= {support_code}
MarkProcessed(processed, code) == processed \cup {code}

\* Mutant of FinalSaveData: only the codes of this harvest are written.
FinalSaveData_HarvestOnly(e, collected, processed, seen) ==
    [email |-> e, last_max_page |-> Some(collected.max_page),
     processed_codes |-> collected.support_codes,
     reurl_links |-> seen \cup collected.reurl_links]

\* Mutant of FinalSaveData: the harvested short links are not written.
FinalSaveData_SeenLinks(e, collected, processed, seen) ==
    [email |-> e, last_max_page |-> Some(collected.max_page),
     processed_codes |-> processed, reurl_links |-> seen]

\* Mutant of RememberData: only the email is saved, the loaded state dropped.
RememberData_EmailOnly(prog, e) ==
    [email |-> e, last_max_page |-> Unset, processed_codes |-> {},
     reurl_links |-> {}]

\* cli.py line 37: the dict of the remember-credentials save
RememberData(prog, e) ==
    [ k \in DOMAIN prog \cup {"email"} |-> IF k = "email" THEN e ELSE prog[k] ]

\* Mutant of LoopSaveData: the save inside the loop writes the max_page of the
\* new harvest.
LoopSaveData_NewMaxPage(e, lmp, processed, seen) ==
    [email |-> e, last_max_page |-> Some(collected_result.max_page),
     processed_codes |-> processed, reurl_links |-> seen]

\* Mutant of LoopSaveData: the save inside the loop also writes the codes the
\* loop has not reached yet.
LoopSaveData_WithPending(e, lmp, processed, seen) ==
    [email |-> e, last_max_page |-> lmp, processed_codes |-> processed \cup todo,
     reurl_links |-> seen]

\* cli.py lines 68-73 / main.py line 364: the dict of the save inside the loop
LoopSaveData(e, lmp, processed, seen) ==
    [email |-> e, last_max_page |-> lmp, processed_codes |-> processed,
     reurl_links |-> seen]

\* cli.py lines 85-90 / main.py line 370: the dict of the final save
FinalSaveData(e, collected, processed, seen) ==
    [email |-> e, last_max_page |-> Some(collected.max_page),
     processed_codes |-> processed,
     reurl_links |-> seen \cup collected.reurl_links]

\* cli.py lines 50-52 / main.py lines 345-347: the page the crawl starts at
StartPage(lmp) == IF lmp # Unset THEN Val(lmp) ELSE 1

NoCollected == [tag |-> "none"]
CollectedResult(maxp, cs, ls) ==
    [tag |-> "collected", max_page |-> maxp, support_codes |-> cs, reurl_links |-> ls]

---------------------------------------------------------------------------
(* State *)

runLocals == << progress, email, password, last_max_page, processed_codes,
                processed_reurls, mepay_token >>
crawlVars == << start_page, codes, reurls, first_page_soup, max_page, tasks,
                page_responses, collected_result >>
loopVars == << todo, support_code, support_user_data, support_result >>
saveVars == << save_data, save_ret >>
saveHist == << file_before_save, save_calls >>
dispatchHist == << lookups, requested, applies, dispatched, lookup_class,
                   apply_status >>
startHist == << file_at_start, prev_harvest >>
crawlHist == << crawl_requests, crawl_log >>
histVars == << startHist, crawlHist, saveHist, dispatchHist >>
\* What a run of the pipeline never assigns.
fixed == << variant, arg, ret >>

FreshProgress ==
    [email |-> None, last_max_page |-> Unset, processed_codes |-> {},
     reurl_links |-> {}]

\* Before a run: no locals, no history.
PipelineInit ==
    /\ keyring = [e \in Emails |-> None]
    /\ progress = FreshProgress
    /\ email = None
    /\ password = None
    /\ last_max_page = Unset
    /\ processed_codes = {}
    /\ processed_reurls = {}
    /\ mepay_token = None
    /\ start_page = 1
    /\ codes = {}
    /\ reurls = {}
    /\ first_page_soup = NoControl
    /\ max_page = 1
    /\ tasks = {}
    /\ page_responses = {}
    /\ collected_result = NoCollected
    /\ todo = {}
    /\ support_code = 0
    /\ support_user_data = NoData
    /\ support_result = NoResult
    /\ save_data = FreshProgress
    /\ save_ret = "idle"
    /\ run_end = "none"
    /\ file_at_start = MissingFile
    /\ file_before_save = MissingFile
    /\ crawl_requests = 0
    /\ save_calls = 0
    /\ lookups = [c \in Codes |-> 0]
    /\ requested = {}
    /\ applies = 0
    /\ dispatched = {}
    /\ lookup_class = "none"
    /\ apply_status = Unset
    /\ crawl_log = NoCrawlLog
    /\ prev_harvest = NoCollected

Init ==
    /\ variant \in Variants
    /\ pc = "idle"
    /\ file = MissingFile
    /\ arg = None
    /\ ret = NoResult
    /\ PipelineInit

\* What the application of a function on its own leaves alone.
pipelineVars == << variant, file, keyring, runLocals, crawlVars, loopVars,
                   saveVars, run_end, histVars >>

\* The locals of collect_forum_data before it runs and after it has returned.
CrawlLocalsGone ==
    /\ codes' = {}
    /\ reurls' = {}
    /\ first_page_soup' = NoControl
    /\ tasks' = {}
    /\ page_responses' = {}

\* The locals of support_user before it runs and after its result was used.
CallLocalsGone ==
    /\ support_user_data' = NoData
    /\ support_result' = NoResult

\* The locals a run has not assigned yet.
LaterLocalsGone ==
    /\ start_page' = 1
    /\ max_page' = 1
    /\ collected_result' = NoCollected
    /\ todo' = {}
    /\ support_code' = 0
    /\ save_data' = FreshProgress
    /\ save_ret' = "idle"
    /\ CrawlLocalsGone
    /\ CallLocalsGone

\* The locals of a run that ended by an exception (they are unwound).
RunLocalsGone ==
    /\ progress' = FreshProgress
    /\ email' = None
    /\ password' = None
    /\ last_max_page' = Unset
    /\ processed_codes' = {}
    /\ processed_reurls' = {}
    /\ mepay_token' = None
    /\ LaterLocalsGone

\* The history of a run that begins.
BeginRun ==
    /\ file_at_start' = file
    /\ file_before_save' = file
    /\ crawl_requests' = 0
    /\ save_calls' = 0
    /\ lookups' = [c \in Codes |-> 0]
    /\ requested' = {}
    /\ applies' = 0
    /\ dispatched' = {}
    /\ lookup_class' = "none"
    /\ apply_status' = Unset
    /\ crawl_log' = NoCrawlLog
    /\ prev_harvest' = IF /\ pc = "done" /\ run_end = "completed"
                          /\ PersistedCodes(file_at_start) = {}
                          /\ PersistedMaxPage(file_at_start) = Unset
                       THEN collected_result ELSE NoCollected

InRun == pc \notin {"idle", "done"}

\* The run ends: by return, or by an exception main() catches and reports.
EndRun(how) == pc' = "done" /\ run_end' = how

\* Where the two entry points go after login and after the crawl.
AfterLogin == IF variant = "cli" THEN "crawl_anchor" ELSE "loop"
AfterCrawl == IF variant = "cli" THEN "loop" ELSE "login"

---------------------------------------------------------------------------
(* Actions *)

\* cli.py _run, lines 18-38: load, prompts, validation, the remember prompt
RunStart ==
    /\ variant = "cli"
    /\ ~InRun
    /\ \E e \in EmailInputs, pw \in PasswordInputs, remember \in BOOLEAN :
         \E previous_password \in get_previous_password(e, keyring) :
           LET prog == load_progress(file) IN
           IF e = "" \/ pw = ""
           THEN /\ EndRun("value_error")
                /\ RunLocalsGone
           ELSE /\ progress' = prog
                /\ email' = e
                /\ password' = pw
                /\ last_max_page' = prog.last_max_page
                /\ processed_codes' = prog.processed_codes
                /\ processed_reurls' = prog.reurl_links
                /\ mepay_token' = None
                /\ LaterLocalsGone
                /\ run_end' = "none"
                /\ pc' = IF (prog.email # e \/ previous_password # pw) /\ remember
                         THEN "remember" ELSE "confirm_restart"
    /\ BeginRun
    /\ UNCHANGED << fixed, file, keyring >>

\* main.py main, lines 331-342: prompts, validation, load
LegacyMainStart ==
    /\ variant = "main"
    /\ ~InRun
    /\ \E e \in EmailInputs, pw \in PasswordInputs :
         IF e = "" \/ pw = ""
         THEN /\ EndRun("value_error")
              /\ RunLocalsGone
         ELSE LET prog == legacy_load_progress(file) IN
              /\ progress' = prog
              /\ email' = e
              /\ password' = pw
              /\ last_max_page' = prog.last_max_page
              /\ processed_codes' = prog.processed_codes
              /\ processed_reurls' = {}
              /\ mepay_token' = None
              /\ LaterLocalsGone
              /\ run_end' = "none"
              /\ pc' = "crawl_anchor"
    /\ BeginRun
    /\ UNCHANGED << fixed, file, keyring >>

\* cli.py line 37 with state.py line 35: save_progress is called and opens the
\* file for writing, which truncates it
RememberSaveOpen ==
    /\ pc = "remember"
    /\ save_data' = RememberData(progress, email)
    /\ save_ret' = "save_password"
    /\ file_before_save' = file
    /\ file' = TruncatedFile
    /\ save_calls' = save_calls + 1
    /\ pc' = "save_write"
    /\ UNCHANGED << fixed, keyring, runLocals, crawlVars, loopVars, run_end,
                    startHist, crawlHist, dispatchHist >>

\* state.py lines 36-46 / main.py lines 299-307: json.dump writes the object
\* and save_progress returns; back in the loop the result's message is printed
\* (cli.py line 76 / main.py line 367) and the result is dropped; after the
\* final save the run returns
SaveWrite ==
    /\ pc = "save_write"
    /\ file' = IF variant = "cli" THEN save_progress(save_data)
               ELSE legacy_save_progress(save_data)
    /\ pc' = save_ret
    /\ run_end' = IF save_ret = "done" THEN "completed" ELSE run_end
    /\ IF save_ret = "loop"
       THEN /\ CallLocalsGone
            /\ applies' = 0
            /\ lookup_class' = "none"
            /\ apply_status' = Unset
       ELSE UNCHANGED << support_user_data, support_result, applies,
                         lookup_class, apply_status >>
    /\ UNCHANGED << fixed, keyring, runLocals, crawlVars, todo, support_code,
                    saveVars, startHist, crawlHist, saveHist, lookups,
                    requested, dispatched >>

\* cli.py line 38, state.py save_password (a KeyringError is swallowed)
SavePassword ==
    /\ pc = "save_password"
    /\ keyring' \in {keyring, [keyring EXCEPT ![email] = password]}
    /\ pc' = "confirm_restart"
    /\ UNCHANGED << fixed, file, runLocals, crawlVars, loopVars, saveVars,
                    histVars, run_end >>

\* Mutant of ConfirmRestart: a full re-harvest also forgets the processed
\* codes.
ConfirmRestart_ForgetCodes ==
    /\ pc = "confirm_restart"
    /\ \E restart \in BOOLEAN :
         /\ last_max_page' = IF restart THEN Unset ELSE last_max_page
         /\ processed_codes' = IF restart THEN {} ELSE processed_codes
    /\ pc' = "login"
    /\ UNCHANGED << fixed, file, keyring, progress, email, password,
                    processed_reurls, mepay_token, crawlVars,
                    loopVars, saveVars, histVars, run_end >>

\* cli.py lines 40-42: the full re-harvest prompt
ConfirmRestart ==
    /\ pc = "confirm_restart"
    /\ \E restart \in BOOLEAN :
         last_max_page' = IF restart THEN Unset ELSE last_max_page
    /\ pc' = "login"
    /\ UNCHANGED << fixed, file, keyring, progress, email, password,
                    processed_codes, processed_reurls, mepay_token, crawlVars,
                    loopVars, saveVars, histVars, run_end >>

LoginResponses == {"ok", "status_not_200", "success_false", "transport_error"}

\* auth.py login (cli.py line 47, main.py line 354)
Login ==
    /\ pc = "login"
    /\ \E res \in LoginResponses :
         IF res = "ok"
         THEN /\ mepay_token' = "token"
              /\ pc' = AfterLogin
              /\ UNCHANGED run_end
         ELSE /\ EndRun(IF res = "transport_error" THEN "login_error"
                        ELSE "login_failed")
              /\ UNCHANGED mepay_token
    /\ UNCHANGED << fixed, file, keyring, progress, email, password,
                    last_max_page, processed_codes, processed_reurls, crawlVars,
                    loopVars, saveVars, histVars >>

\* bahamut.py collect_forum_data, lines 110-118 (main.py lines 162-169): the
\* anchor page is fetched and parsed; its status is not looked at
CrawlAnchor ==
    /\ pc = "crawl_anchor"
    /\ start_page' = StartPage(last_max_page)
    /\ crawl_requests' = crawl_requests + 1
    /\ \/ /\ EndRun("crawl_failed")
          /\ crawl_log' = [crawl_log EXCEPT !.anchor = "transport_error"]
          /\ UNCHANGED << codes, reurls, first_page_soup >>
       \/ \E body \in PageBodies, soup \in Soups :
            LET first_page_result == parse_page(StartPage(last_max_page), body) IN
            /\ crawl_log' = [crawl_log EXCEPT !.anchor = body]
            /\ first_page_soup' = soup
            /\ codes' = first_page_result.support_codes
            /\ reurls' = IF variant = "cli" THEN first_page_result.reurl_links ELSE {}
            /\ pc' = "crawl_comments"
            /\ UNCHANGED run_end
    /\ UNCHANGED << fixed, file, keyring, runLocals, max_page, tasks,
                    page_responses, collected_result, loopVars, saveVars,
                    startHist, saveHist, dispatchHist >>

\* bahamut.py parse_first_floor_comments: what the comment fetch contributes;
\* "raised" for a transport error or a body that is not the JSON mapping
parse_first_floor_comments(res) ==
    IF res = "status_not_200"
    THEN [raised |-> FALSE, support_codes |-> {}, reurl_links |-> {}]
    ELSE IF res = "mapping"
    THEN [raised |-> FALSE, support_codes |-> CommentCodes,
          reurl_links |-> CommentLinks]
    ELSE [raised |-> TRUE, support_codes |-> {}, reurl_links |-> {}]

CommentResponses == {"status_not_200", "mapping", "undecodable", "transport_error"}

\* bahamut.py collect_forum_data, lines 120-131 (main.py lines 171-183): the
\* comment fetch, the maximum page, and the fan-out of the secondary fetches
CrawlComments ==
    /\ pc = "crawl_comments"
    /\ \E res \in CommentResponses :
         LET comments == parse_first_floor_comments(res)
             maxp == get_max_page_number(first_page_soup)
             newcodes == codes \cup comments.support_codes
             newreurls == IF variant = "cli"
                          THEN reurls \cup comments.reurl_links ELSE {}
             newtasks == SecondaryPages(start_page, maxp.value)
         IN /\ crawl_log' = [crawl_log EXCEPT !.comments = res]
               /\ IF comments.raised \/ maxp.raised
               THEN /\ EndRun("crawl_failed")
                    /\ crawl_requests' = crawl_requests + 1
                    /\ UNCHANGED << codes, reurls, first_page_soup, max_page, tasks,
                                    page_responses, collected_result, todo >>
               ELSE /\ max_page' = maxp.value
                    /\ crawl_requests' = crawl_requests + 1 + Cardinality(newtasks)
                    /\ UNCHANGED run_end
                    /\ IF newtasks = {}
                       THEN /\ collected_result' =
                                 CollectedResult(maxp.value, newcodes, newreurls)
                            /\ todo' = newcodes
                            /\ pc' = AfterCrawl
                            /\ CrawlLocalsGone
                       ELSE /\ pc' = "crawl_gather"
                            /\ codes' = newcodes
                            /\ reurls' = newreurls
                            /\ tasks' = newtasks
                            /\ UNCHANGED << first_page_soup, page_responses,
                                            collected_result, todo >>
    /\ UNCHANGED << fixed, file, keyring, runLocals, start_page, support_code,
                    support_user_data, support_result, saveVars, startHist,
                    saveHist, dispatchHist >>

\* bahamut.py line 133 (main.py line 185): one of the gathered fetches
\* completes; an exception of any of them ends the gather
CrawlPageResponse ==
    /\ pc = "crawl_gather"
    /\ \E p \in tasks :
         \/ /\ EndRun("crawl_failed")
            /\ UNCHANGED << tasks, page_responses, crawl_log >>
         \/ \E body \in PageBodies :
              /\ page_responses' = page_responses \cup {[page |-> p, body |-> body]}
              /\ crawl_log' = [crawl_log EXCEPT
                                  !.pages = @ \cup {[page |-> p, body |-> body]}]
              /\ tasks' = tasks \ {p}
              /\ UNCHANGED << pc, run_end >>
    /\ UNCHANGED << fixed, file, keyring, runLocals, start_page, codes, reurls,
                    first_page_soup, max_page, collected_result, loopVars,
                    saveVars, startHist, crawl_requests, saveHist,
                    dispatchHist >>

\* bahamut.py lines 134-140 (main.py lines 186-191): all fetches completed, the
\* pages are parsed and merged, the result returned
CrawlMerge ==
    /\ pc = "crawl_gather"
    /\ tasks = {}
    /\ LET newcodes == codes \cup UNION { parse_page(r.page, r.body).support_codes :
                                            r \in page_responses }
           newreurls == IF variant = "cli"
                        THEN reurls \cup UNION { parse_page(r.page, r.body).reurl_links :
                                                   r \in page_responses }
                        ELSE {}
       IN /\ collected_result' = CollectedResult(max_page, newcodes, newreurls)
          /\ todo' = newcodes
    /\ CrawlLocalsGone
    /\ pc' = AfterCrawl
    /\ UNCHANGED << fixed, file, keyring, runLocals, start_page, max_page,
                    support_code, support_user_data, support_result, saveVars,
                    histVars, run_end >>

\* cli.py lines 59-62 / main.py lines 355-358: the loop reaches a code that is
\* already processed
LoopSkip ==
    /\ pc = "loop"
    /\ \E c \in todo :
         /\ AlreadyProcessed(c, processed_codes)
         /\ todo' = todo \ {c}
    /\ UNCHANGED << fixed, pc, file, keyring, runLocals, crawlVars,
                    support_code, support_user_data, support_result, saveVars,
                    histVars, run_end >>

\* Mutant of LoopDispatch: the code is marked processed before support_user
\* is called.
LoopDispatch_MarkFirst ==
    /\ pc = "loop"
    /\ \E c \in todo :
         /\ ~AlreadyProcessed(c, processed_codes)
         /\ todo' = todo \ {c}
         /\ support_code' = c
         /\ processed_codes' = MarkProcessed(processed_codes, c)
    /\ pc' = "lookup"
    /\ UNCHANGED << fixed, file, keyring, progress, email, password,
                    last_max_page, processed_reurls, mepay_token, crawlVars,
                    support_user_data, support_result, saveVars, histVars,
                    run_end >>

\* cli.py line 64 / main.py line 360: the loop reaches a new code and calls
\* support_user
LoopDispatch ==
    /\ pc = "loop"
    /\ \E c \in todo :
         /\ ~AlreadyProcessed(c, processed_codes)
         /\ todo' = todo \ {c}
         /\ support_code' = c
    /\ pc' = "lookup"
    /\ UNCHANGED << fixed, file, keyring, runLocals, crawlVars,
                    support_user_data, support_result, saveVars, histVars,
                    run_end >>

\* The get_support_user_data of the entry point that runs.
LookupData(res) ==
    IF variant = "cli" THEN get_support_user_data(res)
    ELSE legacy_get_support_user_data(res)

\* mepay.py support_user, lines 52-70 (main.py lines 238-256): the lookup
\* request and the results that need no apply
SupportLookup ==
    /\ pc = "lookup"
    /\ lookups' = [lookups EXCEPT ![support_code] = @ + 1]
    /\ requested' = requested \cup {support_code}
    /\ \/ /\ lookup_class' = "TransportError"
          /\ EndRun("dispatch_error")
          /\ UNCHANGED << support_user_data, support_result, dispatched >>
       \/ \E res \in LookupResponses :
            LET data == LookupData(res) IN
            /\ lookup_class' = Classify(res)
            /\ IF data = Raised
               THEN /\ EndRun("dispatch_error")
                    /\ UNCHANGED << support_user_data, support_result, dispatched >>
               ELSE IF data = NoData
               THEN /\ support_result' = UnknownResult(support_code)
                    /\ dispatched' = dispatched \cup {support_code}
                    /\ pc' = "returned"
                    /\ UNCHANGED << support_user_data, run_end >>
               ELSE IF data.support_user_code = None
               THEN /\ support_result' = AlreadyResult(support_code, data)
                    /\ dispatched' = dispatched \cup {support_code}
                    /\ pc' = "returned"
                    /\ UNCHANGED << support_user_data, run_end >>
               ELSE /\ support_user_data' = data
                    /\ pc' = "apply"
                    /\ UNCHANGED << support_result, dispatched, run_end >>
    /\ UNCHANGED << fixed, file, keyring, runLocals, crawlVars, todo,
                    support_code, saveVars, startHist, crawlHist,
                    saveHist, applies, apply_status >>

\* mepay.py support_user, lines 72-89 (main.py lines 258-275): the apply POST
SupportApply ==
    /\ pc = "apply"
    /\ applies' = applies + 1
    /\ requested' = requested \cup {support_code}
    /\ support_user_data' = NoData
    /\ \/ /\ EndRun("dispatch_error")
          /\ UNCHANGED << support_result, dispatched, apply_status >>
       \/ \E status \in Statuses :
            /\ apply_status' = Some(status)
            /\ support_result' =
                 IF status # StatusOK
                 THEN ApplyFailedResult(support_code, support_user_data)
                 ELSE AppliedResult(support_code, support_user_data)
            /\ dispatched' = dispatched \cup {support_code}
            /\ pc' = "returned"
            /\ UNCHANGED run_end
    /\ UNCHANGED << fixed, file, keyring, runLocals, crawlVars, todo,
                    support_code, saveVars, startHist, crawlHist,
                    saveHist, lookups, lookup_class >>

\* cli.py lines 66-67 / main.py lines 362-363 with state.py line 35: the code
\* is marked processed, save_progress is called and truncates the file
LoopSaveOpen ==
    /\ pc = "returned"
    /\ processed_codes' = MarkProcessed(processed_codes, support_code)
    /\ save_data' = LoopSaveData(email, last_max_page,
                                 MarkProcessed(processed_codes, support_code),
                                 processed_reurls)
    /\ save_ret' = "loop"
    /\ file_before_save' = file
    /\ file' = TruncatedFile
    /\ save_calls' = save_calls + 1
    /\ pc' = "save_write"
    /\ UNCHANGED << fixed, keyring, progress, email, password, last_max_page,
                    processed_reurls, mepay_token, crawlVars, loopVars, run_end,
                    startHist, crawlHist, dispatchHist >>

\* cli.py lines 78-84 / main.py line 369 with state.py line 35: the loop is
\* over, the final save_progress is called and truncates the file
FinalSaveOpen ==
    /\ pc = "loop"
    /\ todo = {}
    /\ save_data' = FinalSaveData(email, collected_result, processed_codes,
                                  processed_reurls)
    /\ save_ret' = "done"
    /\ file_before_save' = file
    /\ file' = TruncatedFile
    /\ save_calls' = save_calls + 1
    /\ pc' = "save_write"
    /\ UNCHANGED << fixed, keyring, runLocals, crawlVars, loopVars, run_end,
                    startHist, crawlHist, dispatchHist >>

\* cli.py lines 95-98 / main.py lines 375-378: KeyboardInterrupt unwinds the
\* run wherever it is
Interrupt ==
    /\ InRun
    /\ EndRun("interrupt")
    /\ RunLocalsGone
    /\ crawl_log' = NoCrawlLog
    /\ UNCHANGED << fixed, file, keyring, startHist, crawl_requests, saveHist,
                    dispatchHist >>

Next ==
    \/ RunStart
    \/ LegacyMainStart
    \/ RememberSaveOpen
    \/ SaveWrite
    \/ SavePassword
    \/ ConfirmRestart
    \/ Login
    \/ CrawlAnchor
    \/ CrawlComments
    \/ CrawlPageResponse
    \/ CrawlMerge
    \/ LoopSkip
    \/ LoopDispatch
    \/ SupportLookup
    \/ SupportApply
    \/ LoopSaveOpen
    \/ FinalSaveOpen
    \/ Interrupt

Spec == Init /\ [][Next]_vars

---------------------------------------------------------------------------
(* The pagination resolver on its own *)

InitMaxPage ==
    /\ variant = "cli"
    /\ pc = "call"
    /\ file = MissingFile
    /\ arg \in ParsedPages
    /\ ret = NoResult
    /\ PipelineInit

\* bahamut.py lines 28-50 (main.py lines 99-121): get_max_page_number(soup)
GetMaxPageNumber ==
    /\ pc = "call"
    /\ ret' = get_max_page_number(arg)
    /\ pc' = "return"
    /\ UNCHANGED << arg, pipelineVars >>

NextMaxPage == GetMaxPageNumber

SpecMaxPage == InitMaxPage /\ [][NextMaxPage]_vars

---------------------------------------------------------------------------
(* The extractor on its own *)

InitExtract ==
    /\ variant = "cli"
    /\ pc = "call"
    /\ file = MissingFile
    /\ arg \in Texts
    /\ ret = NoResult
    /\ PipelineInit

\* bahamut.py lines 53-54: extract_support_codes applied to the text and to
\* the text concatenated with itself
ExtractSupportCodes ==
    /\ pc = "call"
    /\ ret' = [once |-> extract_support_codes(arg),
               twice |-> extract_support_codes(arg \o arg)]
    /\ pc' = "return"
    /\ UNCHANGED << arg, pipelineVars >>

NextExtract == ExtractSupportCodes

SpecExtract == InitExtract /\ [][NextExtract]_vars

---------------------------------------------------------------------------
(* The progress store on a file it did not write *)

InitLoad ==
    /\ variant = "cli"
    /\ pc = "call"
    /\ file \in FileContents
    /\ arg = None
    /\ ret = NoResult
    /\ PipelineInit

loadFrame == << variant, keyring, email, password, last_max_page,
                processed_codes, processed_reurls, mepay_token, crawlVars,
                loopVars, saveVars, run_end, histVars, arg, ret >>

\* cli.py line 18 with state.py lines 12-31: load_progress()
LoadProgress ==
    /\ pc = "call"
    /\ IF load_progress_raises(file)
       THEN /\ pc' = "load_raised"
            /\ UNCHANGED progress
       ELSE /\ pc' = "loaded"
            /\ progress' = load_progress(file)
    /\ UNCHANGED << file, loadFrame >>

\* cli.py line 37 with state.py lines 34-46: save_progress of the loaded state
\* with the entered email; open(filename, "w") truncates the file before the
\* dict literal is evaluated
RememberSaveLoaded ==
    /\ pc = "loaded"
    /\ \E e \in Emails :
         IF save_progress_raises(RememberData(progress, e))
         THEN /\ pc' = "save_raised"
              /\ file' = TruncatedFile
         ELSE /\ pc' = "saved"
              /\ file' = save_progress(RememberData(progress, e))
    /\ UNCHANGED << progress, loadFrame >>

NextLoad ==
    \/ LoadProgress
    \/ RememberSaveLoaded

SpecLoad == InitLoad /\ [][NextLoad]_vars

---------------------------------------------------------------------------
(* Claims *)

Done(how) == pc = "done" /\ run_end = how

\* C1: in one run, a harvested code that is already in processed_codes when
\* the loop reaches it causes no lookup and no apply request, and no code is
\* looked up twice within a run.
C1_SkipProcessedLookupOnce ==
    /\ \A c \in Codes : lookups[c] <= 1
    /\ requested \cap PersistedCodes(file_at_start) = {}

\* A run whose loop has skipped a harvested, already processed code and has
\* dispatched another one.
C1_Witness ==
    /\ pc = "loop"
    /\ \E c \in collected_result.support_codes \cap PersistedCodes(file_at_start) :
         c \notin todo
    /\ requested # {}

\* C2 (first sentence): a lookup is issued only when every code dispatched
\* earlier in the run is in the persisted processed_codes.
C2_LookupAfterCheckpoint ==
    pc \in {"lookup", "apply"} => dispatched \subseteq PersistedCodes(file)

\* C2: the dispatch loop is sequential and checkpointed: the lookup of the
\* next code is issued only after support_user of the previous one returned and
\* a save holding it completed; hence a run interrupted between two dispatches
\* has every code dispatched earlier in the persisted processed_codes, at most
\* the in-flight code is missing.
C2_SequentialCheckpointed ==
    /\ C2_LookupAfterCheckpoint
    /\ Done("interrupt") => Cardinality(dispatched \ PersistedCodes(file)) <= 1

\* C3: a KeyboardInterrupt at any point of a run, also while save_progress is
\* executing, leaves a file whose load has lost none of the processed_codes
\* that were persisted when the last save was called.
C3_InterruptKeepsCheckpoint ==
    Done("interrupt") => PersistedCodes(file_before_save) \subseteq PersistedCodes(file)

\* C4: the processed_codes every save_progress call writes is a superset of
\* the processed_codes persisted before that call, in complete runs, in runs
\* aborted by an error and in runs with a full re-harvest.
C4_ProcessedOnlyGrows ==
    /\ pc = "save_write" =>
         PersistedCodes(file_before_save) \subseteq save_data.processed_codes
    /\ (pc # "save_write" /\ run_end # "interrupt") =>
         PersistedCodes(file_before_save) \subseteq PersistedCodes(file)

\* A save that adds a code to a non-empty persisted set, in a run that asked
\* for a full re-harvest.
C4_Witness ==
    /\ pc = "save_write"
    /\ PersistedCodes(file_before_save) # {}
    /\ save_data.processed_codes # PersistedCodes(file_before_save)
    /\ progress.last_max_page # Unset
    /\ last_max_page = Unset

\* C5: a run that loaded a last_max_page and did not ask for a full re-harvest
\* never saves a smaller last_max_page, whatever pagination the anchor page
\* reports.
C5_MaxPageNonDecreasing ==
    (pc = "save_write" /\ progress.last_max_page # Unset /\ last_max_page # Unset) =>
        /\ save_data.last_max_page # Unset
        /\ Val(save_data.last_max_page) >= Val(progress.last_max_page)

\* C6: a run that ends with a login failure has issued no request to the
\* listing endpoint or to the first-floor comment endpoint.
C6_LoginFailureBeforeCrawl ==
    Done("login_failed") => crawl_requests = 0

FatalBeforeDispatch ==
    pc = "done" /\ run_end \in {"login_failed", "login_error", "crawl_failed"}

\* C7 as stated: a run that aborts in the crawl phase or at authentication
\* has performed no dispatch and no save_progress call, and the persisted
\* state is identical to the one at its start.
C7_NoSaveBeforeAbort ==
    FatalBeforeDispatch =>
        /\ requested = {}
        /\ dispatched = {}
        /\ save_calls = 0
        /\ file = file_at_start

\* C7 as amended: a run that aborts in the crawl phase or at authentication
\* has performed no dispatch and no save_progress call but the
\* remember-credentials save, which writes the loaded state with the entered
\* email: the last_max_page, processed_codes and short links a load yields
\* are those loaded at the start of the run.
C7_CheckpointUntouchedByAbort ==
    FatalBeforeDispatch =>
        /\ requested = {}
        /\ dispatched = {}
        /\ save_calls <= 1
        /\ Checkpoint(file) = Checkpoint(file_at_start)
        /\ save_calls = 0 => file = file_at_start
        /\ save_calls = 1 =>
             /\ variant = "cli"
             /\ \E e \in Emails :
                  file = save_progress(RememberData(load_progress(file_at_start), e))

\* A run that saved the credentials over a file holding processed codes and
\* then failed to log in.
C7_Witness ==
    /\ Done("login_failed")
    /\ save_calls = 1
    /\ PersistedCodes(file_at_start) # {}

\* C8: a lookup that cannot be classified and a rejected apply POST make
\* support_user return a failed result; they never abort the run, so the loop
\* goes on to the remaining codes.
C8_DispatchErrorsDoNotAbort ==
    /\ (pc = "returned"
          /\ (lookup_class = "Unresolvable"
                \/ (apply_status # Unset /\ apply_status # Some(StatusOK)))) =>
         (support_result.tag = "result" /\ ~support_result.success)
    /\ Done("dispatch_error") =>
         (lookup_class # "Unresolvable" /\ apply_status = Unset)

NotApplicable == {"Unresolvable", "SelfSupport", "AlreadySupported"}

\* C9: for a lookup that answers 405, self-support, already-supported or an
\* unclassifiable message, support_user returns success = false and issues no
\* apply POST; for self-support the display name is the self-designator.
C9_ApplyOnlyFromApplicable ==
    lookup_class \in NotApplicable =>
        /\ applies = 0
        /\ pc # "apply"
        /\ ~Done("dispatch_error")
        /\ pc = "returned" =>
             /\ support_result.tag = "result"
             /\ ~support_result.success
             /\ lookup_class = "SelfSupport" =>
                  support_result.username = SelfDesignator

\* C10: every call of support_user whose requests were answered ends in one
\* result after exactly one lookup and at most one apply, with success = true
\* exactly when the lookup was Applicable and the apply POST returned 200.
C10_OneResultPerCall ==
    /\ pc = "returned" =>
         /\ support_result.tag = "result"
         /\ lookups[support_code] = 1
         /\ applies <= 1
         /\ support_result.success <=>
              (lookup_class = "Applicable" /\ apply_status = Some(StatusOK))
    /\ Done("dispatch_error") =>
         lookup_class \in {"TransportError", "Undecodable", "Applicable"}

\* C11: a code whose lookup answers with the already-supported message is
\* reported with success = false, the save that follows its dispatch writes it
\* into the persisted processed_codes, and a run that loads a state holding a
\* code issues no lookup for it.
C11_AlreadySupportedNotRequeried ==
    /\ [](/\ (pc = "returned" /\ lookup_class = "AlreadySupported") =>
               (support_result.tag = "result" /\ ~support_result.success)
          /\ (pc = "save_write" /\ lookup_class = "AlreadySupported") =>
               support_code \in save_data.processed_codes
          /\ \A c \in PersistedCodes(file_at_start) : lookups[c] = 0)
    /\ [][(pc = "save_write" /\ lookup_class = "AlreadySupported" /\ pc' = "loop") =>
            support_code \in PersistedCodes(file')]_vars

\* A run that loaded processed codes, skipped the harvested ones among them,
\* and is saving a code the lookup reported as already supported.
C11_Witness ==
    /\ pc = "save_write"
    /\ lookup_class = "AlreadySupported"
    /\ PersistedCodes(file_at_start) \cap collected_result.support_codes # {}
    /\ PersistedCodes(file_at_start) \cap todo = {}
    /\ support_code \in save_data.processed_codes

\* The codes posted on pages 1 .. m and in the first-floor comments.
AllFound(m) == CommentCodes \cup UNION { PageCodes(p) : p \in 1 .. m }

\* The crawl of this run found everything that is posted from its start page on.
FoundAll ==
    /\ crawl_log.anchor = "posts"
    /\ crawl_log.comments = "mapping"
    /\ \A r \in crawl_log.pages : r.body = "posts"

\* Run B of two complete sequential runs: the run before it completed from an
\* empty state (so it crawled from page 1), and this one completed, started
\* at the last_max_page that run saved and found a max page not below it.
ResumedRun ==
    /\ Done("completed")
    /\ prev_harvest # NoCollected
    /\ start_page = prev_harvest.max_page
    /\ collected_result.max_page >= prev_harvest.max_page

\* C12: after two complete sequential runs from an empty state, B resuming at
\* A's saved last_max_page m1 and finding m2 >= m1, the persisted
\* processed_codes is the union of what the two runs harvested, which is all
\* that is posted on pages 1 .. m2 and in the comments when both found all,
\* and run B issued no request for a code run A had harvested.
C12_CrawlResumption ==
    ResumedRun =>
        /\ PersistedCodes(file) =
              prev_harvest.support_codes \cup collected_result.support_codes
        /\ requested \cap prev_harvest.support_codes = {}
        /\ dispatched \cap prev_harvest.support_codes = {}
        /\ ( /\ prev_harvest.support_codes = AllFound(prev_harvest.max_page)
             /\ FoundAll ) =>
               PersistedCodes(file) = AllFound(collected_result.max_page)

\* Run B found a larger max page than run A, harvested codes run A had
\* harvested and dispatched a code run A had not.
C12_Witness ==
    /\ ResumedRun
    /\ collected_result.max_page > prev_harvest.max_page
    /\ collected_result.support_codes \cap prev_harvest.support_codes # {}
    /\ dispatched # {}

PostedCodes(p, body) == IF body = "posts" THEN PageCodes(p) ELSE {}
PostedLinks(p, body) == IF body = "posts" THEN PageLinks(p) ELSE {}

\* The pages of the closed range [max(2, start), maxp].
RemainingPages(start, maxp) ==
    { p \in 2 .. maxp : p >= start }

\* The union of what the answered fetches of this run's crawl hold.
HarvestedCodes ==
    PostedCodes(start_page, crawl_log.anchor)
      \cup (IF crawl_log.comments = "mapping" THEN CommentCodes ELSE {})
      \cup UNION { PostedCodes(r.page, r.body) : r \in crawl_log.pages }
HarvestedLinks ==
    IF variant = "main" THEN {}
    ELSE PostedLinks(start_page, crawl_log.anchor)
           \cup (IF crawl_log.comments = "mapping" THEN CommentLinks ELSE {})
           \cup UNION { PostedLinks(r.page, r.body) : r \in crawl_log.pages }

AnchorFetchFailed ==
    crawl_log.anchor # None /\ ~is_success(crawl_log.anchor)

\* C15: after a failed fetch of the anchor page, a response with a non-success
\* status included, the crawl returns no result, and the run issues no dispatch
\* request, makes no final save and does not complete.
C15_AnchorFailureFatal ==
    AnchorFetchFailed =>
        /\ collected_result = NoCollected
        /\ requested = {}
        /\ dispatched = {}
        /\ ~(pc = "save_write" /\ save_ret = "done")
        /\ run_end # "completed"

\* The ways the first-floor comment fetch fails: a status other than 200, a
\* transport failure, a body that is not the JSON mapping.
CommentFailures == {"status_not_200", "transport_error", "undecodable"}

\* C16: whenever the first-floor comment fetch fails, the crawl does not end
\* there (it can still end at a later fetch or at the pagination control), and
\* the result it returns holds what the listing pages hold and nothing from the
\* comments.
C16_CommentFailureNotFatal ==
    crawl_log.comments \in CommentFailures =>
        /\ Done("crawl_failed") =>
             (tasks # {} \/ get_max_page_number(first_page_soup).raised)
        /\ collected_result # NoCollected =>
             collected_result.support_codes =
               PostedCodes(start_page, crawl_log.anchor)
                 \cup UNION { PostedCodes(r.page, r.body) : r \in crawl_log.pages }

\* What an anchor contributes: the current-page anchor its numeric label, any
\* other anchor the page query parameter of its link target.
Contribution(a) ==
    IF a.pagenow
    THEN (IF a.text = Unset THEN {} ELSE { Val(a.text) })
    ELSE (IF a.href.page = Unset THEN {} ELSE { Val(a.href.page) })

Contributions(soup) ==
    UNION { Contribution(soup.anchors[i]) : i \in DOMAIN soup.anchors }

\* C17: get_max_page_number returns the maximum of the anchors' contributions,
\* and 1 when the page has no pagination control or no anchor contributes.
C17_MaxOfContributions ==
    (pc = "return" /\ ~ret.raised) =>
        ret.value = IF ~arg.control \/ Contributions(arg) = {} THEN 1
                    ELSE CHOOSE m \in Contributions(arg) :
                           \A x \in Contributions(arg) : x <= m

\* C18: get_max_page_number never fails and returns an integer >= 1, also for
\* anchors whose page parameter is missing, no number, 0 or negative, and for
\* a current-page anchor whose label is no number.
C18_NeverFailsAtLeastOne ==
    pc = "return" => (~ret.raised /\ ret.value >= 1)

\* The text holds the same code token twice and no other.
SameTokenTwice(text) ==
    /\ Len(findall(text, 1)) = 2
    /\ findall(text, 1)[1] = findall(text, 1)[2]

\* C19 as stated: for every text, extract_support_codes(text) equals
\* extract_support_codes(text + text), and a text holding the same code token
\* twice yields a set of exactly one element.
C19_ExtractTwiceSame ==
    pc = "return" =>
        /\ ret.once = ret.twice
        /\ SameTokenTwice(arg) => Cardinality(ret.once) = 1

\* The text begins or ends with a character that is neither in the token
\* class nor in the literal part of the pattern (or the text is empty).
SeparatedText(text) ==
    \/ text = << >>
    \/ text[1] = " "
    \/ text[Len(text)] = " "

\* C19 as amended: for every text that begins or ends with a character that
\* is neither in the token class nor in the literal part of the pattern,
\* extract_support_codes(text) equals extract_support_codes(text + text), and
\* every text holding the same code token twice yields a set of exactly one
\* element.
C19_ExtractTwiceSameWhenSeparated ==
    pc = "return" =>
        /\ SeparatedText(arg) => ret.once = ret.twice
        /\ SameTokenTwice(arg) => Cardinality(ret.once) = 1

\* A text that ends with a separator and holds the same code token twice:
\* both extractions are the one-element set.
C19_Witness ==
    /\ pc = "return"
    /\ arg = << "h", ":", "a", " ", "h", ":", "a", " " >>
    /\ SeparatedText(arg)
    /\ SameTokenTwice(arg)
    /\ ret.once = { << "a" >> }
    /\ ret.twice = { << "a" >> }

\* The file holds no JSON object with the member k.
Absent(f, k) == f.kind # "json" \/ k \notin DOMAIN f.obj

\* C20: load_progress never raises, whatever the file holds (nothing, text that
\* is no JSON, JSON that is no object, an object lacking members); in the state
\* it returns the orchestrator reads the absent members as empty or unset; and
\* the save_progress of that state that follows does not raise either.
C20_LoadNeverRaises ==
    /\ pc # "load_raised"
    /\ pc # "save_raised"
    /\ pc = "loaded" =>
         /\ Absent(file, "email") => dict_get(progress, "email", None) = None
         /\ Absent(file, "last_max_page") =>
               dict_get(progress, "last_max_page", Unset) = Unset
         /\ Absent(file, "processed_codes") =>
               dict_get(progress, "processed_codes", {}) = {}
         /\ Absent(file, "reurl_links") =>
               dict_get(progress, "reurl_links", {}) = {}

\* The codes a run may have persisted as processed: those it loaded and those
\* for which support_user has returned in this run.
Attempted == PersistedCodes(file_at_start) \cup dispatched

\* C21: in every state, each code in the persisted processed_codes (and in the
\* processed_codes a save in progress writes) was loaded at the start of the
\* run or is a code for which support_user has already returned in this run;
\* the code whose dispatch is in progress is not persisted.
C21_PersistedWasAttempted ==
    /\ PersistedCodes(file) \subseteq Attempted
    /\ pc = "save_write" => save_data.processed_codes \subseteq Attempted
    /\ pc \in {"lookup", "apply", "returned"} =>
         support_code \notin PersistedCodes(file)

\* A run that loaded processed codes has persisted a code it dispatched, and
\* the next dispatch is in progress while harvested codes are still waiting.
C21_Witness ==
    /\ pc \in {"lookup", "apply"}
    /\ PersistedCodes(file_at_start) # {}
    /\ PersistedCodes(file) \ PersistedCodes(file_at_start) # {}
    /\ support_code \notin PersistedCodes(file)

\* The apply POST of the dispatch in progress was answered with a status
\* other than 200.
ApplyRejected == apply_status # Unset /\ apply_status # Some(StatusOK)

\* The dispatch in progress is one the claim calls ApplyFailed or Unresolvable.
FailedDispatch == lookup_class = "Unresolvable" \/ ApplyRejected

\* C22: a dispatch whose lookup answered 405 or an unclassifiable message, or
\* whose apply POST was rejected, ends with a result that is no success, the
\* save that follows writes the code into processed_codes as for any other
\* result and leaves it in the persisted processed_codes, and a run issues no
\* lookup and no apply for a code it loaded as processed.
C22_FailedDispatchPersisted ==
    /\ [](/\ FailedDispatch => ~Done("dispatch_error")
          /\ (pc = "returned" /\ FailedDispatch) =>
               (support_result.tag = "result" /\ ~support_result.success)
          /\ (pc = "save_write" /\ save_ret = "loop" /\ FailedDispatch) =>
               /\ support_code \in processed_codes
               /\ save_data = LoopSaveData(email, last_max_page, processed_codes,
                                           processed_reurls)
          /\ \A c \in PersistedCodes(file_at_start) :
               lookups[c] = 0 /\ c \notin requested)
    /\ [][(pc = "save_write" /\ save_ret = "loop" /\ FailedDispatch /\ pc' = "loop") =>
            support_code \in PersistedCodes(file')]_vars

\* The last_max_page values a run leaves in the file before its final save:
\* the loaded one, or none (after a full re-harvest request, or in a file an
\* interrupted save left behind).
OldBoundary == {Unset, PersistedMaxPage(file_at_start)}

\* C23: every save inside the dispatch loop writes the last_max_page the crawl
\* started from (the loaded one, or null after a full re-harvest request);
\* until the run has completed the persisted last_max_page is the loaded one
\* or null, and only the write of the final save, made when no harvested code
\* is left, changes it to another value; so the run after an interrupted one
\* crawls from the old boundary or from page 1.
C23_LoopSavesKeepBoundary ==
    /\ [](/\ (pc = "save_write" /\ save_ret = "loop") =>
               /\ save_data.last_max_page = last_max_page
               /\ save_data.last_max_page \in OldBoundary
               /\ StartPage(save_data.last_max_page) = start_page
          /\ ~Done("completed") => PersistedMaxPage(file) \in OldBoundary
          /\ Done("interrupt") =>
               StartPage(PersistedMaxPage(file))
                 \in {1, StartPage(PersistedMaxPage(file_at_start))})
    /\ [][(/\ PersistedMaxPage(file') # PersistedMaxPage(file)
            /\ PersistedMaxPage(file') \notin OldBoundary) =>
              (pc = "save_write" /\ save_ret = "done" /\ todo = {}
                 /\ PersistedMaxPage(file') = Some(collected_result.max_page))]_vars

\* A save inside the loop of a run that resumed at page 2 and harvested a
\* larger max_page: it writes 2.
C23_Witness ==
    /\ pc = "save_write"
    /\ save_ret = "loop"
    /\ PersistedMaxPage(file_at_start) = Some(2)
    /\ collected_result.max_page = 3
    /\ save_data.last_max_page = Some(2)

\* C24: when support_user raises (a transport error or an undecodable body
\* in the lookup, a transport error in the apply), the run ends there: the
\* code is not in processed_codes and not in the file, the step that raises
\* writes nothing and calls no save, every code loaded or dispatched before
\* is in the file, the run that follows does not load the code as processed,
\* and a run dispatches every harvested code it did not load as processed
\* when its loop reaches it.
C24_RaisedCodeRetried ==
    /\ [](Done("dispatch_error") =>
            /\ support_code \notin processed_codes
            /\ support_code \notin dispatched
            /\ support_code \notin PersistedCodes(file)
            /\ PersistedCodes(file) = PersistedCodes(file_at_start) \cup dispatched
            /\ save_calls <= Cardinality(dispatched) + 1)
    /\ [][(run_end' = "dispatch_error" /\ run_end # "dispatch_error") =>
            /\ pc \in {"lookup", "apply"}
            /\ file' = file
            /\ save_calls' = save_calls
            /\ processed_codes' = processed_codes]_vars
    /\ [][(Done("dispatch_error") /\ pc' # "done") =>
            /\ support_code \notin PersistedCodes(file_at_start')
            /\ support_code \notin processed_codes']_vars
    /\ [][\A c \in Codes \ PersistedCodes(file_at_start) :
            (pc = "loop" /\ c \in todo /\ c \notin todo' /\ pc' # "done") =>
              (pc' = "lookup" /\ support_code' = c)]_vars

\* A run that persisted one dispatched code and was ended by a transport
\* error of the apply POST for the next one.
C24_Witness ==
    /\ Done("dispatch_error")
    /\ dispatched # {}
    /\ applies = 1
    /\ dispatched \subseteq PersistedCodes(file)
    /\ support_code \notin PersistedCodes(file)

\* The run loaded a last_max_page and the operator asked for a full
\* re-harvest.
Restarted == progress.last_max_page # Unset /\ last_max_page = Unset

\* C25: answering the full re-harvest prompt changes nothing but the local
\* last_max_page; in a run that asked for it the crawl starts at page 1, the
\* seen short links are the loaded ones, processed_codes is the loaded set
\* plus the codes dispatched in this run, no lookup or apply is issued for a
\* loaded code, and the loop passes a loaded code without calling
\* support_user.
C25_RestartResetsOnlyCrawlStart ==
    /\ [](Restarted =>
            /\ variant = "cli"
            /\ start_page = 1
            /\ processed_reurls = PersistedLinks(file_at_start)
            /\ PersistedCodes(file_at_start) \subseteq processed_codes
            /\ processed_codes \subseteq PersistedCodes(file_at_start) \cup dispatched
            /\ dispatched \cap PersistedCodes(file_at_start) = {}
            /\ requested \cap PersistedCodes(file_at_start) = {}
            /\ \A c \in PersistedCodes(file_at_start) : lookups[c] = 0
            /\ pc \in {"lookup", "apply", "returned"} =>
                 support_code \notin PersistedCodes(file_at_start))
    /\ [][(pc = "confirm_restart" /\ pc' = "login") =>
            /\ last_max_page' \in {Unset, last_max_page}
            /\ UNCHANGED << file, keyring, progress, email, password,
                            processed_codes, processed_reurls >>]_vars
    /\ [][\A c \in PersistedCodes(file_at_start) :
            (Restarted /\ pc = "loop" /\ c \in todo /\ c \notin todo' /\ pc' # "done") =>
              (pc' = "loop" /\ UNCHANGED << lookups, requested, dispatched,
                                            processed_codes, file >>)]_vars

\* A run that asked for a full re-harvest, crawled from page 1, passed a
\* harvested code it had loaded as processed and dispatched a new one.
C25_Witness ==
    /\ Restarted
    /\ pc = "loop"
    /\ crawl_log.anchor = "posts"
    /\ Val(progress.last_max_page) > 1
    /\ \E c \in collected_result.support_codes \cap PersistedCodes(file_at_start) :
         c \notin todo /\ lookups[c] = 0
    /\ dispatched # {}

====
